---- MODULE Spec2Model ----
(***************************************************************************)
(* A small-step model of the python-fixpoint demonstration scripts:        *)
(*   b.py        the fixed-point combinator `fix`, the decorated template  *)
(*               fib, the aliasing/deletion phase and the lambda template  *)
(*   c.py        recursion through globals()["fib"]                        *)
(*   d1.py       plain global-name recursion, dumped to fib.dill           *)
(*   d2hack.py   loads fib.dill and rebinds the name fib before calling    *)
(*   d2lambda.py loads fiblambda.dill twice, deleting its name in between  *)
(* Every process has one global name table, a call stack of frames, a      *)
(* pending exception and its standard output.  Function values are closures*)
(* by value: <<code, cell_1, ..., cell_k>>.  Integers are <<"int", n>>.    *)
(***************************************************************************)
EXTENDS Integers, Sequences, FiniteSets, TLC

(* ------------------------------ bounds --------------------------------- *)
\* The interpreter's recursion limit (frames on the call stack, the module
\* frame included).  CPython's default is 1000; the model keeps it small.
RecursionLimit == 20
\* Arguments the probing caller tries: -MaxNeg .. MaxArg.
MaxArg == 10
MaxNeg == 2

(* ------------------------------ values --------------------------------- *)
IntV(n) == <<"int", n>>
StrV(s) == <<"str", s>>
None == <<"none">>
Codes == {"fix", "base_fix", "tied_fn", "fib_template", "lambda_template",
          "c_fib", "d1_fib"}
IsInt(v) == v[1] = "int"
IsCallable(v) == v[1] \in Codes
Cells(v) == Tail(v)

\* Number of positional parameters of each code object; 0 - 1 stands for *args.
Arity(code) ==
  CASE code = "fix" -> 1
    [] code = "base_fix" -> 1
    [] code = "tied_fn" -> 0 - 1
    [] code = "fib_template" -> 2
    [] code = "lambda_template" -> 2
    [] code = "c_fib" -> 1
    [] code = "d1_fib" -> 1

(* --------------------------- serialisation ----------------------------- *)
\* The external value serialiser: a callable is captured by value, as its
\* code and its closure cells, in a prefix token stream; the global table is
\* not captured (a loaded function resolves globals in the loading process).
RECURSIVE Serialize(_), SerializeAll(_)
Serialize(v) ==
  IF v[1] = "int" THEN <<"I", v[2]>>
  ELSE <<"F", v[1], Len(v) - 1>> \o SerializeAll(Tail(v))
SerializeAll(vs) ==
  IF vs = <<>> THEN <<>> ELSE Serialize(Head(vs)) \o SerializeAll(Tail(vs))

RECURSIVE Parse(_), ParseN(_, _)
Parse(b) ==
  IF b[1] = "I"
  THEN [val |-> IntV(b[2]), rest |-> SubSeq(b, 3, Len(b))]
  ELSE LET r == ParseN(b[3], SubSeq(b, 4, Len(b)))
       IN  [val |-> <<b[2]>> \o r.vals, rest |-> r.rest]
ParseN(k, b) ==
  IF k = 0 THEN [vals |-> <<>>, rest |-> b]
  ELSE LET h == Parse(b)
           t == ParseN(k - 1, h.rest)
       IN  [vals |-> <<h.val>> \o t.vals, rest |-> t.rest]
Deserialize(b) == Parse(b).val

(* ------------------------------ scripts -------------------------------- *)
\* Module-level statements:
\*   <<"def", name, code>>             def name(...): ...
\*   <<"bindcall", name, f, code>>     name = f(<function code>)
\*   <<"for", f, lo, hi>>              for n in range(lo, hi): print(f(n))
\*   <<"print", s>>                    print(s)
\*   <<"assign", dst, src>>            dst = src
\*   <<"del", name>>                   del name
\*   <<"dump", name, file>>            dump(name, open(file, "wb"))
\*   <<"load", file, name>>            name = load(open(file, "rb"))
Script_b ==
  << <<"def", "fix", "fix">>,
     <<"bindcall", "fib", "fix", "fib_template">>,
     <<"for", "fib", 0, 9>>,
     <<"print", "===">>,
     <<"assign", "foo", "fib">>,
     <<"assign", "k", "fix">>,
     <<"del", "fib">>,
     <<"del", "fix">>,
     <<"for", "foo", 0, 9>>,
     <<"print", "===">>,
     <<"assign", "fix", "k">>,
     <<"bindcall", "fiblambda", "fix", "lambda_template">>,
     <<"for", "fiblambda", 0, 9>> >>

Script_c ==
  << <<"def", "fib", "c_fib">>,
     <<"for", "fib", 0, 7>>,
     <<"print", "===">>,
     <<"assign", "foo", "fib">>,
     <<"del", "fib">>,
     <<"for", "foo", 0, 7>>,
     <<"print", "===">> >>

Script_d1 ==
  << <<"def", "fib", "d1_fib">>,
     <<"for", "fib", 0, 7>>,
     <<"print", "===">>,
     <<"dump", "fib", "fib.dill">>,
     <<"print", "===">> >>

\* d2hack.py without line 6: the loaded function is called as it came.
Script_d2hack_nohack ==
  << <<"load", "fib.dill", "user_supplied_function">>,
     <<"for", "user_supplied_function", 0, 7>> >>

\* d2hack.py with line 6 moved below the loop.
Script_d2hack_late ==
  << <<"load", "fib.dill", "user_supplied_function">>,
     <<"for", "user_supplied_function", 0, 7>>,
     <<"assign", "fib", "user_supplied_function">> >>

Script_d2hack ==
  << <<"load", "fib.dill", "user_supplied_function">>,
     <<"assign", "fib", "user_supplied_function">>,
     <<"for", "user_supplied_function", 0, 7>> >>

Script_d2lambda ==
  << <<"load", "fiblambda.dill", "fib">>,
     <<"for", "fib", 0, 7>>,
     <<"print", "===">>,
     <<"del", "fib">>,
     <<"load", "fiblambda.dill", "user_supplied_function">>,
     <<"for", "user_supplied_function", 0, 7>> >>

\* The producer of fiblambda.dill: the lambda-based callable of b.py,
\* printed and dumped the way d1.py prints and dumps its fib.
Script_d1lambda ==
  << <<"def", "fix", "fix">>,
     <<"bindcall", "fiblambda", "fix", "lambda_template">>,
     <<"for", "fiblambda", 0, 7>>,
     <<"print", "===">>,
     <<"dump", "fiblambda", "fiblambda.dill">>,
     <<"print", "===">> >>

\* A caller of the combinator with an argument of its choice: b.py's
\* construction, call, alias, removal (del, or rebinding to the integer n)
\* of the names fib and fix, and call again.
Probe_b(code, n, mode) ==
  << <<"def", "fix", "fix">>,
     <<"bindcall", "fib", "fix", code>>,
     <<"for", "fib", n, n + 1>>,
     <<"print", "===">>,
     <<"assign", "foo", "fib">> >>
  \o (IF mode = "del"
      THEN << <<"del", "fib">>, <<"del", "fix">> >>
      ELSE << <<"assign", "fib", "n">>, <<"assign", "fix", "n">> >>)
  \o << <<"for", "foo", n, n + 1>> >>

\* c.py's alias-and-delete phase with an argument of the caller's choice.
Probe_c(n) ==
  << <<"def", "fib", "c_fib">>,
     <<"assign", "foo", "fib">>,
     <<"del", "fib">>,
     <<"for", "foo", n, n + 1>> >>

Proc(name, body, arg) == [name |-> name, body |-> body, arg |-> arg]

ProbeArgs == (0 - MaxNeg) .. MaxArg
ProbeCodes == {"fib_template", "lambda_template"}
\* Functions that are no templates (they do not take (self, n)), handed to
\* fix all the same.
OtherBases == {"c_fib", "fix"}

\* The runs: each is a sequence of processes sharing one file system.
ScenarioIds ==
  {<<"b", "-", 0, "-">>, <<"c", "-", 0, "-">>, <<"d1_d2hack", "-", 0, "-">>,
   <<"d2hack", "-", 0, "-">>, <<"d1lambda_d2lambda", "-", 0, "-">>}
  \cup {<<"probe_b", c, n, m>> : c \in ProbeCodes, n \in ProbeArgs,
                                  m \in {"del", "rebind"}}
  \cup {<<"probe_c", "-", n, "-">> : n \in ProbeArgs}
  \cup {<<"probe_any", c, n, "del">> : c \in OtherBases, n \in {0, 2}}

ScenarioOf(s) ==
  CASE s[1] = "b" -> << Proc("b", Script_b, 0) >>
    [] s[1] = "c" -> << Proc("c", Script_c, 0) >>
    [] s[1] = "d1_d2hack" ->
         << Proc("d1", Script_d1, 0), Proc("d2hack", Script_d2hack, 0) >>
    [] s[1] = "d2hack" -> << Proc("d2hack", Script_d2hack, 0) >>
    [] s[1] = "d1lambda_d2lambda" ->
         << Proc("d1lambda", Script_d1lambda, 0),
            Proc("d2lambda", Script_d2lambda, 0) >>
    [] s[1] = "probe_b" -> << Proc("probe_b", Probe_b(s[2], s[3], s[4]), s[3]) >>
    [] s[1] = "probe_c" -> << Proc("probe_c", Probe_c(s[3]), s[3]) >>
    [] s[1] = "probe_any" ->
         << Proc("probe_any", Probe_b(s[2], s[3], s[4]), s[3]) >>

(* ------------------------------- state --------------------------------- *)
VARIABLES
  queue,    \* processes still to be started
  cur,      \* the running (or last run) process: [name, body, arg]
  status,   \* "idle" | "running" | "done" | "crashed"
  globals,  \* the process's global name table: name -> value
  stack,    \* call stack; stack[1] is the module frame
  ret,      \* value just returned to the top frame, or None
  exc,      \* exception in flight, or "none"
  out,      \* standard output of the process, one item per line
  files,    \* the file system: file name -> token stream
  log,      \* finished processes: [name, status, out, exc]
  cnt,      \* per-process call counters (observers)
  lastFix   \* what the last completed fix(...) call did (observer)

vars == <<queue, cur, status, globals, stack, ret, exc, out, files, log, cnt,
          lastFix>>

ZeroCnt == [tied |-> 0, selfapp |-> 0, deleg |-> 0, basefix |-> 0,
            template |-> 0, greads |-> 0, gfib |-> 0]

NoFix == [n |-> 0, basefix |-> 0, template |-> 0, selfapp |-> 0, tied |-> 0]

Globals0 == [x \in {"__name__"} |-> StrV("__main__")]
Files0 == [x \in {} |-> <<>>]

Init ==
  /\ \E s \in ScenarioIds : queue = ScenarioOf(s)
  /\ cur = Proc("-", <<>>, 0)
  /\ status = "idle"
  /\ globals = Globals0
  /\ stack = <<>>
  /\ ret = None
  /\ exc = "none"
  /\ out = <<>>
  /\ files = Files0
  /\ log = <<>>
  /\ cnt = ZeroCnt
  /\ lastFix = NoFix

Top == stack[Len(stack)]
SetTop(f) == [stack EXCEPT ![Len(stack)] = f]
Pop == SubSeq(stack, 1, Len(stack) - 1)
Bound(name) == name \in DOMAIN globals
Bind(g, name, v) == (name :> v) @@ g
Unbind(g, name) == [x \in DOMAIN g \ {name} |-> g[x]]

\* A process starts: fresh global table, module frame, empty output.
StartProcess ==
  /\ status # "running"
  /\ queue # <<>>
  /\ cur' = Head(queue)
  /\ queue' = Tail(queue)
  /\ status' = "running"
  /\ globals' = Globals0
  /\ cnt' = ZeroCnt
  /\ stack' = << [code |-> "module", cells |-> <<>>, args |-> <<>>,
                  pc |-> "run", tmp |-> <<>>, ip |-> 1, it |-> 0,
                  mark |-> ZeroCnt] >>
  /\ ret' = None
  /\ exc' = "none"
  /\ out' = <<>>
  /\ lastFix' = NoFix
  /\ UNCHANGED <<files, log>>

(* ------------------------- calls and returns --------------------------- *)
EntryPc(code) ==
  CASE code = "fix" -> "L15"
    [] code = "base_fix" -> "L17"
    [] code = "tied_fn" -> "L18"
    [] code = "fib_template" -> "L28"
    [] code = "lambda_template" -> "L28"
    [] code = "c_fib" -> "L5"
    [] code = "d1_fib" -> "L2"

Entered(c, code) ==
  CASE code = "tied_fn" -> [c EXCEPT !.tied = @ + 1]
    [] code = "base_fix" -> [c EXCEPT !.basefix = @ + 1]
    [] code \in {"fib_template", "lambda_template"} ->
         [c EXCEPT !.template = @ + 1]
    [] code \in {"c_fib", "d1_fib"} -> [c EXCEPT !.gfib = @ + 1]
    [] OTHER -> c

ArgsFit(callee, args) ==
  Arity(callee[1]) < 0 \/ Arity(callee[1]) = Len(args)

\* The caller (already moved to its resume point) calls callee(*args):
\* a non-callable or an argument mismatch raises TypeError, a full stack
\* raises RecursionError, otherwise the callee's frame is pushed.
DoCall(caller, callee, args, c) ==
  /\ ret' = None
  /\ IF ~IsCallable(callee) \/ ~ArgsFit(callee, args)
     THEN /\ exc' = "TypeError"
          /\ stack' = SetTop(caller)
          /\ cnt' = c
     ELSE IF Len(stack) >= RecursionLimit
     THEN /\ exc' = "RecursionError"
          /\ stack' = SetTop(caller)
          /\ cnt' = c
     ELSE /\ exc' = "none"
          /\ cnt' = Entered(c, callee[1])
          /\ stack' = Append(SetTop(caller),
                             [code |-> callee[1], cells |-> Cells(callee),
                              args |-> args, pc |-> EntryPc(callee[1]),
                              tmp |-> <<>>, ip |-> 1, it |-> 0,
                              mark |-> Entered(c, callee[1])])

DoReturn(v) ==
  /\ stack' = Pop
  /\ ret' = v
  /\ UNCHANGED <<exc, cnt>>

DoRaise(e) ==
  /\ exc' = e
  /\ ret' = None
  /\ UNCHANGED <<stack, cnt>>

(* ------------------------ module-level statements ---------------------- *)
Running == status = "running" /\ exc = "none"
AtModule == Running /\ Len(stack) = 1
Stmt == cur.body[Top.ip]
AtStmt(kind, pc) ==
  /\ AtModule
  /\ Top.pc = pc
  /\ Top.ip <= Len(cur.body)
  /\ Stmt[1] = kind
NextStmt(f) == [f EXCEPT !.ip = @ + 1, !.pc = "run", !.it = 0]

\* def name(...): binds the new function object to its name.
StmtDef ==
  /\ AtStmt("def", "run")
  /\ globals' = Bind(globals, Stmt[2], <<Stmt[3]>>)
  /\ stack' = SetTop(NextStmt(Top))
  /\ UNCHANGED <<queue, cur, status, ret, exc, out, files, log, cnt, lastFix>>

\* name = f(<function>): the decorated def of b.py:25 and the lambda of
\* b.py:54.  f is looked up, the function object is created and passed.
StmtBindCall ==
  /\ AtStmt("bindcall", "run")
  /\ IF Bound(Stmt[3])
     THEN DoCall([Top EXCEPT !.pc = "wait"], globals[Stmt[3]],
                 << <<Stmt[4]>> >>, cnt)
     ELSE DoRaise("NameError")
  /\ UNCHANGED <<queue, cur, status, globals, out, files, log, lastFix>>

StmtBindRet ==
  /\ AtStmt("bindcall", "wait")
  /\ globals' = Bind(globals, Stmt[2], ret)
  /\ ret' = None
  /\ stack' = SetTop(NextStmt(Top))
  /\ UNCHANGED <<queue, cur, status, exc, out, files, log, cnt, lastFix>>

\* for n in range(lo, hi): print(f(n)) -- one iteration's call.
StmtForCall ==
  /\ AtStmt("for", "run")
  /\ Stmt[3] + Top.it < Stmt[4]
  /\ globals' = Bind(globals, "n", IntV(Stmt[3] + Top.it))
  /\ IF Bound(Stmt[2])
     THEN DoCall([Top EXCEPT !.pc = "wait"], globals[Stmt[2]],
                 << IntV(Stmt[3] + Top.it) >>, cnt)
     ELSE DoRaise("NameError")
  /\ UNCHANGED <<queue, cur, status, out, files, log, lastFix>>

StmtForPrint ==
  /\ AtStmt("for", "wait")
  /\ out' = Append(out, ret)
  /\ ret' = None
  /\ stack' = SetTop([Top EXCEPT !.pc = "run", !.it = @ + 1])
  /\ UNCHANGED <<queue, cur, status, globals, exc, files, log, cnt, lastFix>>

StmtForEnd ==
  /\ AtStmt("for", "run")
  /\ Stmt[3] + Top.it >= Stmt[4]
  /\ stack' = SetTop(NextStmt(Top))
  /\ UNCHANGED <<queue, cur, status, globals, ret, exc, out, files, log, cnt,
                 lastFix>>

StmtPrint ==
  /\ AtStmt("print", "run")
  /\ out' = Append(out, StrV(Stmt[2]))
  /\ stack' = SetTop(NextStmt(Top))
  /\ UNCHANGED <<queue, cur, status, globals, ret, exc, files, log, cnt,
                 lastFix>>

StmtAssign ==
  /\ AtStmt("assign", "run")
  /\ IF Bound(Stmt[3])
     THEN /\ globals' = Bind(globals, Stmt[2], globals[Stmt[3]])
          /\ stack' = SetTop(NextStmt(Top))
          /\ UNCHANGED <<ret, exc, cnt>>
     ELSE DoRaise("NameError") /\ UNCHANGED globals
  /\ UNCHANGED <<queue, cur, status, out, files, log, lastFix>>

StmtDel ==
  /\ AtStmt("del", "run")
  /\ IF Bound(Stmt[2])
     THEN /\ globals' = Unbind(globals, Stmt[2])
          /\ stack' = SetTop(NextStmt(Top))
          /\ UNCHANGED <<ret, exc, cnt>>
     ELSE DoRaise("NameError") /\ UNCHANGED globals
  /\ UNCHANGED <<queue, cur, status, out, files, log, lastFix>>

StmtDump ==
  /\ AtStmt("dump", "run")
  /\ IF Bound(Stmt[2])
     THEN /\ files' = Bind(files, Stmt[3], Serialize(globals[Stmt[2]]))
          /\ stack' = SetTop(NextStmt(Top))
          /\ UNCHANGED <<ret, exc, cnt>>
     ELSE DoRaise("NameError") /\ UNCHANGED files
  /\ UNCHANGED <<queue, cur, status, globals, out, log, lastFix>>

StmtLoad ==
  /\ AtStmt("load", "run")
  /\ IF Stmt[2] \in DOMAIN files
     THEN /\ globals' = Bind(globals, Stmt[3], Deserialize(files[Stmt[2]]))
          /\ stack' = SetTop(NextStmt(Top))
          /\ UNCHANGED <<ret, exc, cnt>>
     ELSE DoRaise("FileNotFoundError") /\ UNCHANGED globals
  /\ UNCHANGED <<queue, cur, status, out, files, log, lastFix>>

LogEntry(st) == [name |-> cur.name, status |-> st, out |-> out, exc |-> exc]

\* The script ran to its end: normal exit.
Finish ==
  /\ AtModule
  /\ Top.pc = "run"
  /\ Top.ip > Len(cur.body)
  /\ status' = "done"
  /\ stack' = <<>>
  /\ log' = Append(log, LogEntry("done"))
  /\ UNCHANGED <<queue, cur, globals, ret, exc, out, files, cnt, lastFix>>

\* Variant: a pending frame catches the exception and returns 0 instead.
Unwind_swallow ==
  /\ status = "running"
  /\ exc # "none"
  /\ Len(stack) > 1
  /\ stack' = Pop
  /\ exc' = "none"
  /\ ret' = IntV(0)
  /\ UNCHANGED <<queue, cur, status, globals, out, files, log, cnt, lastFix>>

\* No frame handles an exception: it leaves each pending frame in turn ...
Unwind ==
  /\ status = "running"
  /\ exc # "none"
  /\ Len(stack) > 1
  /\ stack' = Pop
  /\ UNCHANGED <<queue, cur, status, globals, ret, exc, out, files, log, cnt,
                 lastFix>>

\* ... and, leaving the module frame, ends the process abnormally.
Crash ==
  /\ status = "running"
  /\ exc # "none"
  /\ Len(stack) = 1
  /\ status' = "crashed"
  /\ stack' = <<>>
  /\ log' = Append(log, LogEntry("crashed"))
  /\ UNCHANGED <<queue, cur, globals, ret, exc, out, files, cnt, lastFix>>

(* ------------------------------ b.py: fix ------------------------------ *)
InFunc(code, pc) ==
  /\ Running
  /\ Len(stack) > 1
  /\ Top.code = code
  /\ Top.pc = pc
Rest == <<queue, cur, status, globals, out, files, log>>

\* fix(base): defines base_fix (closing over base) and calls
\* base_fix(base_fix).
FixDefine ==
  /\ InFunc("fix", "L15")
  /\ LET base_fix == <<"base_fix", Top.args[1]>>
     IN  DoCall([Top EXCEPT !.pc = "L23r", !.tmp = <<base_fix>>],
                base_fix, <<base_fix>>, cnt)
  /\ UNCHANGED <<Rest, lastFix>>

\* return base_fix(base_fix)
FixReturn ==
  /\ InFunc("fix", "L23r")
  /\ DoReturn(ret)
  /\ lastFix' = [n |-> lastFix.n + 1,
                 basefix |-> cnt.basefix - Top.mark.basefix,
                 template |-> cnt.template - Top.mark.template,
                 selfapp |-> cnt.selfapp - Top.mark.selfapp,
                 tied |-> cnt.tied - Top.mark.tied]
  /\ UNCHANGED Rest

\* Variant: base_fix applies self(self) at once (the Y combinator's eager
\* unfolding) instead of returning a closure that does so when called.
BaseFixRun_eager ==
  /\ InFunc("base_fix", "L17")
  /\ DoCall([Top EXCEPT !.pc = "L17r"], Top.args[1], <<Top.args[1]>>, cnt)
  /\ UNCHANGED <<Rest, lastFix>>

\* base_fix(self): defines tied_fn (closing over self and base), returns it.
BaseFixRun ==
  /\ InFunc("base_fix", "L17")
  /\ DoReturn(<<"tied_fn", Top.args[1], Top.cells[1]>>)
  /\ UNCHANGED <<Rest, lastFix>>

\* Variant: rec is taken from the global name fib (rec = fib).
TiedSelfApply_byname ==
  /\ InFunc("tied_fn", "L18")
  /\ cnt' = [cnt EXCEPT !.greads = @ + 1]
  /\ IF Bound("fib")
     THEN /\ stack' = SetTop([Top EXCEPT !.pc = "L18r"])
          /\ ret' = globals["fib"]
          /\ exc' = "none"
     ELSE /\ stack' = stack
          /\ ret' = None
          /\ exc' = "NameError"
  /\ UNCHANGED <<Rest, lastFix>>

\* Variant: rec is a tied function kept from construction, not re-derived.
TiedSelfApply_cached ==
  /\ InFunc("tied_fn", "L18")
  /\ stack' = SetTop([Top EXCEPT !.pc = "L18r"])
  /\ ret' = <<"tied_fn">> \o Top.cells
  /\ UNCHANGED <<Rest, lastFix, cnt, exc>>

\* tied_fn(*args), line 18: rec = self(self)
TiedSelfApply ==
  /\ InFunc("tied_fn", "L18")
  /\ DoCall([Top EXCEPT !.pc = "L18r"], Top.cells[1], <<Top.cells[1]>>,
            [cnt EXCEPT !.selfapp = @ + 1])
  /\ UNCHANGED <<Rest, lastFix>>

\* tied_fn(*args), line 19: base(rec, *args)
TiedDelegate ==
  /\ InFunc("tied_fn", "L18r")
  /\ DoCall([Top EXCEPT !.pc = "L19r", !.tmp = <<ret>>], Top.cells[2],
            <<ret>> \o Top.args, [cnt EXCEPT !.deleg = @ + 1])
  /\ UNCHANGED <<Rest, lastFix>>

\* tied_fn(*args), line 19: return
TiedReturn ==
  /\ InFunc("tied_fn", "L19r")
  /\ DoReturn(ret)
  /\ UNCHANGED <<Rest, lastFix>>

(* ------------------------ b.py: the two templates ---------------------- *)
\* Variant: the base case covers n == 0 only.
fib_test_zero(n) == n = 0
\* Variant: the base case also covers n == 2.
lambda_test_wide(n) == n = 0 \/ n = 1 \/ n = 2
\* def fib(self, n): if n == 0 or n == 1
fib_test(n) == n = 0 \/ n = 1
\* lambda self, n: 1 if n == 0 or n == 1 else ...
lambda_test(n) == n = 0 \/ n = 1
TemplateTest(code, n) ==
  IF code = "fib_template" THEN fib_test(n) ELSE lambda_test(n)
Templates == {"fib_template", "lambda_template"}
InTemplate(pc) ==
  /\ Running
  /\ Len(stack) > 1
  /\ Top.code \in Templates
  /\ Top.pc = pc

\* return 1
TemplateBase ==
  /\ InTemplate("L28")
  /\ IsInt(Top.args[2])
  /\ TemplateTest(Top.code, Top.args[2][2])
  /\ DoReturn(IntV(1))
  /\ UNCHANGED <<Rest, lastFix>>

\* self(n-1)
TemplateRec1 ==
  /\ InTemplate("L28")
  /\ ~(IsInt(Top.args[2]) /\ TemplateTest(Top.code, Top.args[2][2]))
  /\ IF IsInt(Top.args[2])
     THEN DoCall([Top EXCEPT !.pc = "L31a"], Top.args[1],
                 <<IntV(Top.args[2][2] - 1)>>, cnt)
     ELSE DoRaise("TypeError")
  /\ UNCHANGED <<Rest, lastFix>>

\* self(n-2)
TemplateRec2 ==
  /\ InTemplate("L31a")
  /\ DoCall([Top EXCEPT !.pc = "L31b", !.tmp = <<ret>>], Top.args[1],
            <<IntV(Top.args[2][2] - 2)>>, cnt)
  /\ UNCHANGED <<Rest, lastFix>>

\* return self(n-1) + self(n-2)
TemplateSum ==
  /\ InTemplate("L31b")
  /\ IF IsInt(Top.tmp[1]) /\ IsInt(ret)
     THEN DoReturn(IntV(Top.tmp[1][2] + ret[2]))
     ELSE DoRaise("TypeError")
  /\ UNCHANGED <<Rest, lastFix>>

(* --------------------------- c.py: fib(n) ------------------------------ *)
\* Variant: the base case also covers n == 2.
c_test_wide(n) == n = 0 \/ n = 1 \/ n = 2
\* if n == 0 or n == 1
c_test(n) == n = 0 \/ n = 1

\* return 1
CFibBase ==
  /\ InFunc("c_fib", "L5")
  /\ IsInt(Top.args[1])
  /\ c_test(Top.args[1][2])
  /\ DoReturn(IntV(1))
  /\ UNCHANGED <<Rest, lastFix>>

\* Variant: the function refers to itself directly when the key is missing.
CFibLookup_own ==
  /\ InFunc("c_fib", "L5")
  /\ ~(IsInt(Top.args[1]) /\ c_test(Top.args[1][2]))
  /\ ret' = None
  /\ cnt' = [cnt EXCEPT !.greads = @ + 1]
  /\ stack' = SetTop([Top EXCEPT !.pc = "L9",
                        !.tmp = <<IF Bound("fib") THEN globals["fib"]
                                  ELSE <<"c_fib">> >>])
  /\ exc' = "none"
  /\ UNCHANGED <<Rest, lastFix>>

\* myself = globals()["fib"]: a missing key raises KeyError.
CFibLookup ==
  /\ InFunc("c_fib", "L5")
  /\ ~(IsInt(Top.args[1]) /\ c_test(Top.args[1][2]))
  /\ ret' = None
  /\ cnt' = [cnt EXCEPT !.greads = @ + 1]
  /\ IF Bound("fib")
     THEN /\ stack' = SetTop([Top EXCEPT !.pc = "L9", !.tmp = <<globals["fib"]>>])
          /\ exc' = "none"
     ELSE /\ stack' = stack
          /\ exc' = "KeyError"
  /\ UNCHANGED <<Rest, lastFix>>

\* myself(n-1)
CFibRec1 ==
  /\ InFunc("c_fib", "L9")
  /\ IF IsInt(Top.args[1])
     THEN DoCall([Top EXCEPT !.pc = "L9a"], Top.tmp[1],
                 <<IntV(Top.args[1][2] - 1)>>, cnt)
     ELSE DoRaise("TypeError")
  /\ UNCHANGED <<Rest, lastFix>>

\* myself(n-2)
CFibRec2 ==
  /\ InFunc("c_fib", "L9a")
  /\ DoCall([Top EXCEPT !.pc = "L9b", !.tmp = <<Top.tmp[1], ret>>],
            Top.tmp[1], <<IntV(Top.args[1][2] - 2)>>, cnt)
  /\ UNCHANGED <<Rest, lastFix>>

\* return myself(n-1) + myself(n-2)
CFibSum ==
  /\ InFunc("c_fib", "L9b")
  /\ IF IsInt(Top.tmp[2]) /\ IsInt(ret)
     THEN DoReturn(IntV(Top.tmp[2][2] + ret[2]))
     ELSE DoRaise("TypeError")
  /\ UNCHANGED <<Rest, lastFix>>

(* --------------------------- d1.py: fib(n) ----------------------------- *)
\* if n == 0 or n == 1
d1_test(n) == n = 0 \/ n = 1

\* return 1
D1FibBase ==
  /\ InFunc("d1_fib", "L2")
  /\ IsInt(Top.args[1])
  /\ d1_test(Top.args[1][2])
  /\ DoReturn(IntV(1))
  /\ UNCHANGED <<Rest, lastFix>>

\* The name fib in the body is a global: it is looked up, at each call, in
\* the global table of the process the function runs in.
D1Call(resume, arg) ==
  IF Bound("fib")
  THEN DoCall(resume, globals["fib"], <<arg>>, [cnt EXCEPT !.greads = @ + 1])
  ELSE /\ exc' = "NameError"
       /\ ret' = None
       /\ stack' = stack
       /\ cnt' = [cnt EXCEPT !.greads = @ + 1]

\* fib(n-1)
D1FibRec1 ==
  /\ InFunc("d1_fib", "L2")
  /\ ~(IsInt(Top.args[1]) /\ d1_test(Top.args[1][2]))
  /\ IF IsInt(Top.args[1])
     THEN D1Call([Top EXCEPT !.pc = "L5a"], IntV(Top.args[1][2] - 1))
     ELSE DoRaise("TypeError")
  /\ UNCHANGED <<Rest, lastFix>>

\* fib(n-2)
D1FibRec2 ==
  /\ InFunc("d1_fib", "L5a")
  /\ D1Call([Top EXCEPT !.pc = "L5b", !.tmp = <<ret>>],
            IntV(Top.args[1][2] - 2))
  /\ UNCHANGED <<Rest, lastFix>>

\* return fib(n-1) + fib(n-2)
D1FibSum ==
  /\ InFunc("d1_fib", "L5b")
  /\ IF IsInt(Top.tmp[1]) /\ IsInt(ret)
     THEN DoReturn(IntV(Top.tmp[1][2] + ret[2]))
     ELSE DoRaise("TypeError")
  /\ UNCHANGED <<Rest, lastFix>>

Next ==
  \/ StartProcess
  \/ StmtDef
  \/ StmtBindCall
  \/ StmtBindRet
  \/ StmtForCall
  \/ StmtForPrint
  \/ StmtForEnd
  \/ StmtPrint
  \/ StmtAssign
  \/ StmtDel
  \/ StmtDump
  \/ StmtLoad
  \/ Finish
  \/ Unwind
  \/ Crash
  \/ FixDefine
  \/ FixReturn
  \/ BaseFixRun
  \/ TiedSelfApply
  \/ TiedDelegate
  \/ TiedReturn
  \/ TemplateBase
  \/ TemplateRec1
  \/ TemplateRec2
  \/ TemplateSum
  \/ CFibBase
  \/ CFibLookup
  \/ CFibRec1
  \/ CFibRec2
  \/ CFibSum
  \/ D1FibBase
  \/ D1FibRec1
  \/ D1FibRec2
  \/ D1FibSum


Spec == Init /\ [][Next]_vars

\* Python runs a script to its end: some step is taken whenever one is enabled.
FairSpec == Spec /\ WF_vars(Next)

(* ============================ properties =============================== *)
RECURSIVE FibRef(_)
\* f(0) = 1, f(1) = 1, f(n) = f(n-1) + f(n-2)
FibRef(n) == IF n <= 1 THEN 1 ELSE FibRef(n - 1) + FibRef(n - 2)
Sep == StrV("===")
Ended == status \in {"done", "crashed"}
Max(a, b) == IF a >= b THEN a ELSE b
\* Frames the call fix(template)(n) needs, the module frame included: one
\* tied_fn frame and one template frame per level n, n-1, ..., 1.
FramesNeeded(n) == 2 * Max(n, 1) + 1
Fits(n) == FramesNeeded(n) <= RecursionLimit
\* The module frame has completed its first k statements.
Past(k) == status = "done" \/ (status = "running" /\ stack[1].ip > k)
First9 == <<IntV(1), IntV(1), IntV(2), IntV(3), IntV(5), IntV(8), IntV(13),
            IntV(21), IntV(34)>>
First7 == SubSeq(First9, 1, 7)
TiedAt(pc) ==
  Cardinality({i \in 1 .. Len(stack) :
                 stack[i].code = "tied_fn" /\ stack[i].pc = pc})
FixLive == \E i \in 1 .. Len(stack) : stack[i].code = "fix"

C2_StableUnderRebinding ==
  /\ cur.name \in {"b", "probe_b"} => cnt.greads = 0
  /\ (cur.name = "b" /\ Past(9)) => SubSeq(out, 11, 19) = SubSeq(out, 1, 9)
  /\ (cur.name = "b" /\ Ended) => status = "done" /\ Len(out) = 29
  /\ (cur.name = "probe_b" /\ Ended /\ Len(out) >= 1) =>
        status = "done" /\ out = <<out[1], Sep, out[1]>>
C2_Witness ==
  /\ cur.name = "b" /\ status = "running" /\ Len(stack) = 1
  /\ stack[1].ip = 10 /\ Len(out) = 19
  /\ ~Bound("fib") /\ ~Bound("fix")

\* C3: every tied_fn invocation makes exactly one self-application
\* self(self), before its one delegation to base; nothing is cached: the
\* closure holds base_fix, never an already tied function.
C3_OneSelfApplicationPerCall ==
  /\ cnt.tied = cnt.selfapp + TiedAt("L18")
  /\ cnt.deleg <= cnt.selfapp
  /\ exc = "none" => cnt.selfapp = cnt.deleg + TiedAt("L18r")
  /\ status = "done" => cnt.tied = cnt.selfapp /\ cnt.selfapp = cnt.deleg
  /\ cnt.template <= cnt.deleg
  /\ \A i \in 1 .. Len(stack) :
        stack[i].code = "tied_fn" =>
          /\ stack[i].cells[1][1] = "base_fix"
          /\ stack[i].pc = "L19r" => stack[i].tmp[1][1] = "tied_fn"
C3_Witness ==
  cur.name = "b" /\ status = "done" /\ cnt.tied = 3 * 167 /\ cnt.selfapp = 3 * 167

\* C4: the decorated template fib and the lambda template fiblambda give
\* the same value for every n in 0..8.
C4_NamedAndLambdaAgree ==
  (cur.name = "b" /\ Ended) =>
     /\ status = "done"
     /\ Len(out) = 29
     /\ SubSeq(out, 21, 29) = SubSeq(out, 1, 9)
C4_Witness ==
  cur.name = "b" /\ status = "done" /\ out[29] = IntV(34) /\ out[9] = IntV(34)

C6_GlobalLookupComputesFib ==
  /\ (cur.name = "c" /\ Past(2)) => SubSeq(out, 1, 7) = First7
  /\ (cur.name = "c" /\ Ended) => Len(out) >= 7
C6_Witness ==
  cur.name = "c" /\ status = "running" /\ Len(stack) = 1 /\ stack[1].ip = 3
  /\ Bound("fib") /\ Len(out) = 7

\* C7: after del fib, foo(0) and foo(1) return 1 without a lookup, foo(n)
\* for any other n fails at its first globals()["fib"] lookup with KeyError,
\* uncaught: c.py ends abnormally having printed seven values, "===", 1, 1.
C7_LookupFailsAfterDel ==
  /\ (cur.name = "c" /\ Ended) =>
        /\ status = "crashed"
        /\ exc = "KeyError"
        /\ out = First7 \o <<Sep, IntV(1), IntV(1)>>
  /\ (cur.name = "probe_c" /\ Ended) =>
        IF cur.arg \in {0, 1}
        THEN status = "done" /\ out = <<IntV(1)>> /\ cnt.greads = 0
        ELSE /\ status = "crashed"
             /\ exc = "KeyError"
             /\ out = <<>>
             /\ cnt.greads = 1
             /\ cnt.gfib = 1
  /\ (cur.name = "probe_c" /\ exc = "KeyError" /\ status = "running") =>
        Len(stack) <= 2
C7_Witness ==
  cur.name = "c" /\ status = "crashed" /\ exc = "KeyError" /\ Len(out) = 10

\* C8 as stated: fix(fibTemplate)(n) returns a value for every n >= 0 and
\* ends in stack exhaustion for every n < 0.
C8_Original ==
  (cur.name = "probe_b" /\ Ended) =>
     IF cur.arg >= 0
     THEN status = "done" /\ Len(out) = 3
     ELSE status = "crashed" /\ exc = "RecursionError" /\ out = <<>>

\* C8, amended: fix(fibTemplate)(n) returns a value for every n >= 0 whose
\* 2*max(n,1) nested calls fit the interpreter's recursion limit; for deeper
\* n >= 0 and for every n < 0 the call ends in RecursionError, which leaves
\* every pending frame uncaught and never becomes a returned value.
C8_TerminatesWithinStack ==
  /\ (cur.name = "probe_b" /\ Ended) =>
        IF cur.arg >= 0 /\ Fits(cur.arg)
        THEN status = "done" /\ Len(out) = 3
        ELSE /\ status = "crashed"
             /\ exc = "RecursionError"
             /\ out = <<>>
             /\ stack = <<>>
  /\ exc # "none" => ret = None
  /\ Len(stack) <= RecursionLimit
C8_Witness ==
  /\ cur.name = "probe_b" /\ cur.arg < 0
  /\ status = "crashed" /\ exc = "RecursionError"

\* C9: constructing fix(base) ends after exactly one self-application
\* base_fix(base_fix), which only builds tied_fn: no call of base, of
\* tied_fn or of self(self) happens during construction, whatever base is
\* (a template, or a function that cannot even take (self, n)); base runs
\* only by delegation from a call of the returned callable.
C9_ConstructionState ==
  /\ lastFix.n >= 1 =>
        /\ lastFix.basefix = 1
        /\ lastFix.template = 0
        /\ lastFix.selfapp = 0
        /\ lastFix.tied = 0
  /\ FixLive =>
        /\ Len(stack) <= 3
        /\ exc = "none"
        /\ stack[2].code = "fix"
        /\ cnt.template = stack[2].mark.template
        /\ cnt.tied = stack[2].mark.tied
  /\ cnt.template <= cnt.deleg
  /\ (Ended /\ cur.name \in {"b", "probe_b", "probe_any", "d1lambda"}) =>
        lastFix.n >= 1
  /\ (Ended /\ cur.name = "probe_any") =>
        status = "crashed" /\ exc = "TypeError" /\ cnt.deleg = 1
\* C9: (the above, always) and every construction fix(base) that has begun
\* comes to its end.
C9_ConstructionIsLazy ==
  /\ []C9_ConstructionState
  /\ FixLive ~> ~FixLive
C9_Witness ==
  /\ cur.name = "probe_b" /\ cur.arg < 0 /\ lastFix.n = 1
  /\ status = "running" /\ Len(stack) = 1 /\ stack[1].ip = 2
  /\ stack[1].pc = "wait" /\ ret[1] = "tied_fn"

\* C10: in d2hack.py the name fib is bound to the loaded function before
\* its first call and at every recursive lookup, so no call for n = 0..6
\* ends in a name-resolution failure.
C10_HackKeepsFibBound ==
  cur.name = "d2hack" =>
     /\ exc \notin {"NameError", "KeyError"}
     /\ cnt.gfib > 0 =>
          /\ Bound("fib")
          /\ Bound("user_supplied_function")
          /\ globals["fib"] = globals["user_supplied_function"]
          /\ globals["fib"][1] = "d1_fib"
     /\ (Ended /\ Len(log) = 2) => status = "done" /\ out = First7
C10_Witness ==
  /\ cur.name = "d2hack" /\ status = "running" /\ Len(log) = 1
  /\ Len(stack) = 6 /\ Top.code = "d1_fib" /\ Top.pc = "L5a"
  /\ cnt.greads >= 5 /\ exc = "none"
====
